---- MODULE Spec2Model ----
(***************************************************************************)
(* The API key manager (services/apiKeyManager.js) and the DELETE          *)
(* /keys/:keyId route that guards revocation by ownership.                 *)
(*                                                                         *)
(* The manager is asynchronous JavaScript on one event loop: the code      *)
(* between two awaits of real input/output (fs.writeFile, fs.readFile, the *)
(* provider's refreshAccessToken) runs without interruption, and any other *)
(* operation may run while an operation waits.  One action of the model is *)
(* one such uninterrupted run: an operation is invoked, or one that waits  *)
(* is resumed by the completion it waits for, and runs up to its next wait *)
(* or to its end, through every nested call.                               *)
(***************************************************************************)
EXTENDS Integers, Sequences, FiniteSets, Bags, TLC

VARIABLES
    apiKeys,        \* this.apiKeys: the Map, as the sequence of its entries in insertion order
    heap,           \* the keyData objects the Map and the running operations refer to
    refreshTimers,  \* this.refreshTimers: per key, the instant its armed timer fires
    strays,         \* armed timers that this.refreshTimers does not hold any more
    revoked,        \* the keys for which revokeApiKey has returned true
    disk,           \* data/api-keys.json
    ops,            \* the operations that wait for a write, a read or the provider
    now,            \* Date.now()
    provCalls,      \* calls of the provider's refreshAccessToken made so far
    answered,       \* the credentials the provider has answered with, in the order of the answers
    calls,          \* operations invoked so far (bounded)
    wfails,         \* writes that failed so far (bounded)
    previous,       \* the store of the run before this one, which wrote the file
    ev              \* what the last step did: the operation, its result

vars == <<apiKeys, heap, refreshTimers, strays, revoked, disk, ops, now, provCalls,
          answered, calls, wfails, previous, ev>>

----------------------------------------------------------------------------
(* Bounds of the model *)

MaxOps == 2         \* operations in flight at once
MaxCalls == 2       \* operations invoked in one run
MaxTicks == 1       \* one-minute steps of the clock
MaxProv == 2        \* provider calls
MaxWriteFails == 1  \* writes that fail

(* Program constants *)

(* Instants and durations are in seconds (the code's milliseconds / 1000:
   thirty days of milliseconds exceed the checker's integers). *)
Minute == 60
FiveMinutes == 5 * 60
ThirtyDays == 30 * 24 * 60 * 60

(* A null or undefined tokenExpiry / expiry_date: `x ? new Date(x) : null`
   takes 0 for absent as well. *)
NullDate == 0
(* No armed timer under a key: no entry, or a handle that fired or was cleared *)
NoTimer == 0
(* No keyData object *)
NoObj == 0

StartTime == 10 * Minute

(* Inputs *)

Keys == {"md2doc_1", "md2doc_2"}
UserInfos == { [id |-> "u1", email |-> "u1", name |-> "u1"],
               [id |-> "u2", email |-> "u2", name |-> "u2"] }
NoTok == <<>>
IssuedAccessToken == <<"access", 0>>
RefreshToken == <<"refresh", 1>>
(* What createApiKey is called with: the key drawn and the identity (up to the
   renaming of users), and the provider's tokens: whether a refresh token came
   and how far ahead expiry_date is (0: none came). *)
IssuedTo == { <<"md2doc_1", "u1">>, <<"md2doc_2", "u2">> }
IssuedTokens == { [refresh_token |-> RefreshToken, ahead |-> 0],
                  [refresh_token |-> RefreshToken, ahead |-> 4 * Minute],
                  [refresh_token |-> RefreshToken, ahead |-> 6 * Minute] }
ProviderOffsets == {4 * Minute, 6 * Minute}  \* expiry_date - now in a refresh response
(* The stores an earlier run can have left in the file.  Every keyData is one
   createApiKey builds and the other functions change; its dates are given
   relative to the start of this run. *)
earlier(userId, refresh_token, expiresIn, usedAgo, active) ==
    [userId |-> userId, email |-> userId, name |-> userId,
     accessToken |-> IssuedAccessToken, refreshToken |-> refresh_token,
     tokenExpiry |-> IF expiresIn = 0 THEN NullDate ELSE StartTime + expiresIn,
     createdAt |-> StartTime - ThirtyDays - Minute, lastUsed |-> StartTime - usedAgo,
     active |-> active]

PreviousStores ==
    { [saved |-> FALSE, entries |-> <<>>],
      [saved |-> TRUE, entries |->
          << [key |-> "md2doc_1", keyData |-> earlier("u1", RefreshToken, 6 * Minute, Minute, TRUE)] >>],
      [saved |-> TRUE, entries |->
          << [key |-> "md2doc_1", keyData |-> earlier("u1", RefreshToken, 4 * Minute, Minute, TRUE)],
             [key |-> "md2doc_2", keyData |-> earlier("u2", RefreshToken, 0, Minute, TRUE)] >>],
      [saved |-> TRUE, entries |->
          << [key |-> "md2doc_2", keyData |-> earlier("u1", RefreshToken, 6 * Minute, ThirtyDays, FALSE)],
             [key |-> "md2doc_1", keyData |-> earlier("u1", NoTok, 4 * Minute, Minute, TRUE)] >>],
      [saved |-> TRUE, entries |->
          << [key |-> "md2doc_1", keyData |-> earlier("u1", RefreshToken, 5 * Minute + 30, Minute, TRUE)] >>] }

ObjIds == 1 .. (2 * Cardinality(Keys) + MaxOps)

NoRec == [userId |-> "", email |-> "", name |-> "", accessToken |-> NoTok,
          refreshToken |-> NoTok, tokenExpiry |-> NullDate, createdAt |-> 0,
          lastUsed |-> 0, active |-> FALSE]

----------------------------------------------------------------------------
(* Dates and JSON: a Date is its millisecond value; JSON.stringify writes it
   as an ISO-8601 string and null as null. *)

toISOString(t) == <<"iso", t>>
JsonNull == <<"null">>
newDate(s) == IF s = JsonNull THEN 0 ELSE s[2]  \* new Date(null) is the epoch

toJSON(keyData) ==
    [keyData EXCEPT !.createdAt = toISOString(keyData.createdAt),
                    !.lastUsed = toISOString(keyData.lastUsed),
                    !.tokenExpiry = IF keyData.tokenExpiry = NullDate THEN JsonNull
                                    ELSE toISOString(keyData.tokenExpiry)]

fromJSONNoExpiry(value) ==
    [value EXCEPT !.createdAt = newDate(value.createdAt),
                  !.lastUsed = newDate(value.lastUsed),
                  !.tokenExpiry = NullDate]

(* What loadApiKeys makes of a parsed value: the three dates converted back *)
fromJSON(value) ==
    [value EXCEPT !.createdAt = newDate(value.createdAt),
                  !.lastUsed = newDate(value.lastUsed),
                  !.tokenExpiry = IF value.tokenExpiry # JsonNull
                                  THEN newDate(value.tokenExpiry) ELSE NullDate]

----------------------------------------------------------------------------
(* The Map this.apiKeys.  A configuration c carries the manager's state
   through one step: c.apiKeys, c.heap, c.refreshTimers, c.provCalls, the
   running operation c.op, the event c.e, c.live (the operation still waits
   after the step) and c.ok (no bound of the model was hit). *)

has(c, k) == \E i \in 1..Len(c.apiKeys) : c.apiKeys[i].key = k
indexOf(c, k) == CHOOSE i \in 1..Len(c.apiKeys) : c.apiKeys[i].key = k
get(c, k) == IF has(c, k) THEN c.apiKeys[indexOf(c, k)].obj ELSE NoObj
keyDataOf(c, k) == c.heap[get(c, k)]

mapSet(c, k, o) ==
    [c EXCEPT !.apiKeys = IF has(c, k)
                          THEN [c.apiKeys EXCEPT ![indexOf(c, k)] = [key |-> k, obj |-> o]]
                          ELSE Append(c.apiKeys, [key |-> k, obj |-> o])]

mapDelete(c, k) ==
    [c EXCEPT !.apiKeys = SelectSeq(c.apiKeys, LAMBDA entry : entry.key # k)]

RefsOfMap(m) == {m[i].obj : i \in 1..Len(m)}
RefsOfOps(os) == {o.obj : o \in BagToSet(os)} \ {NoObj}

(* A fresh object: one that neither the Map nor an operation refers to *)
newObj(c) ==
    LET held == RefsOfMap(c.apiKeys) \cup RefsOfOps(ops) \cup {c.op.obj}
        free == ObjIds \ held
    IN CHOOSE o \in free : \A p \in free : o <= p

----------------------------------------------------------------------------
(* Events and operations *)

NoPred == [op |-> "", what |-> "", key |-> "", rec |-> NoRec, prov |-> 0,
           caught |-> FALSE, cause |-> ""]

(* What a function returned that returns neither a keyData nor a boolean *)
NoValue == [type |-> "", n |-> 0]
Undefined == [type |-> "undefined", n |-> 0]

NoEv == [op |-> "", what |-> "", first |-> FALSE, key |-> "", ok |-> FALSE,
         rec |-> NoRec, http |-> "", by |-> "", decided |-> FALSE, trig |-> FALSE,
         exp |-> NullDate, caught |-> FALSE, cause |-> "", wfail |-> FALSE,
         removed |-> 0, target |-> "", short |-> FALSE, sched |-> {}, ret |-> NoValue, changed |-> FALSE, list |-> <<>>,
         refreshed |-> FALSE, same |-> FALSE, resp |-> <<>>,
         pred |-> NoPred]

(* What getUserByApiKey, invoked in this state, follows at once: createApiKey
   or init returning, or refreshUserTokens throwing *)
Pred ==
    IF (ev.op \in {"issue", "init"} /\ ev.what = "return")
       \/ (ev.what = "throw" /\ ev.cause # "")
    THEN [op |-> ev.op, what |-> ev.what, key |-> ev.key, rec |-> ev.rec, prov |-> provCalls,
          caught |-> ev.caught, cause |-> ev.cause]
    ELSE NoPred

(* kind: the operation invoked ("issue", "resolve", "refresh", "timer",
   "revoke", "delete", "cleanup", "init"); phase: where the DELETE route is;
   pc: the await the operation is at; key, obj: apiKey and keyData of the
   manager function that runs; inGet: refreshUserTokens was called by
   getUserByApiKey; snap: the JSON text being written; callNo: the provider
   call awaited; caller, target, user: the route's X-API-Key header, :keyId
   and userData.userId; arg: what createApiKey was called with; wfail: a write
   of this operation failed; short: the provider answered this operation with
   an expiry_date at most five minutes ahead; removed: cleanupCount; changed: revokeApiKey
   found the record active; cause: why the catch block of
   refreshUserTokens ran; pred: the step the invocation
   followed. *)
OpAfter(kind, pred) ==
    [kind |-> kind, phase |-> "", pc |-> "", key |-> "", obj |-> NoObj, inGet |-> FALSE,
     snap |-> <<>>, callNo |-> 0, caller |-> "", target |-> "", user |-> "",
     arg |-> NoRec, wfail |-> FALSE, short |-> FALSE, cause |-> "", removed |-> 0, changed |-> FALSE,
     pred |-> pred]

NewOp(kind) == OpAfter(kind, IF kind = "resolve" THEN Pred ELSE NoPred)

(* The configuration in which an operation is invoked *)
Invoke(kind) ==
    [apiKeys |-> apiKeys, heap |-> heap, refreshTimers |-> refreshTimers,
     strays |-> strays, revoked |-> revoked, provCalls |-> provCalls, op |-> NewOp(kind),
     e |-> [NoEv EXCEPT !.op = kind, !.first = TRUE, !.what = "call",
                        !.pred = NewOp(kind).pred],
     live |-> FALSE, ok |-> TRUE, status |-> "", val |-> NoObj, flag |-> FALSE]

(* The configuration in which the waiting operation o is resumed *)
Resume(o) ==
    [apiKeys |-> apiKeys, heap |-> heap, refreshTimers |-> refreshTimers,
     strays |-> strays, revoked |-> revoked, provCalls |-> provCalls, op |-> o,
     e |-> [NoEv EXCEPT !.op = o.kind, !.what = "step", !.key = o.key, !.by = o.user,
                        !.target = o.target, !.short = o.short, !.cause = o.cause,
                        !.removed = o.removed, !.changed = o.changed,
                        !.wfail = o.wfail, !.pred = o.pred],
     live |-> FALSE, ok |-> TRUE, status |-> "", val |-> NoObj, flag |-> FALSE]

(* The running function awaits: the operation waits at pc *)
await(c, pc) ==
    [c EXCEPT !.op.pc = pc, !.live = TRUE, !.status = "wait", !.e.key = c.op.key]

(* The running function returns the object o (NoObj: null or undefined) *)
return(c, o) ==
    [c EXCEPT !.op.pc = "", !.op.obj = NoObj, !.op.snap = <<>>, !.op.callNo = 0,
              !.op.inGet = FALSE,
              !.status = "return", !.val = o, !.flag = (o # NoObj), !.e.key = c.op.key]

(* The running function returns the boolean b *)
returnBool(c, b) == [return(c, NoObj) EXCEPT !.flag = b]

(* The running function throws *)
throw(c) == [return(c, NoObj) EXCEPT !.status = "throw", !.flag = FALSE]

----------------------------------------------------------------------------
(* saveApiKeys: JSON.stringify(Object.fromEntries(this.apiKeys)) is taken when
   the function is called; the write completes later, or fails, and either
   way saveApiKeys returns normally (its catch only logs). *)

stringify(c) ==
    [i \in 1..Len(c.apiKeys) |->
        [key |-> c.apiKeys[i].key, value |-> toJSON(c.heap[c.apiKeys[i].obj])]]

saveApiKeys(c, pc) == await([c EXCEPT !.op.snap = stringify(c)], pc)

(* The file after the write of operation o completed (written) or failed *)
writeFile(o, written) == IF written THEN [exists |-> TRUE, data |-> o.snap] ELSE disk

----------------------------------------------------------------------------
(* needsTokenRefresh *)

needsTokenRefreshLe(keyData) ==
    IF keyData.tokenExpiry = NullDate THEN FALSE
    ELSE keyData.tokenExpiry <= now + FiveMinutes

needsTokenRefreshAnyExpiry(keyData) == keyData.tokenExpiry # NullDate

needsTokenRefresh(keyData) ==
    IF keyData.tokenExpiry = NullDate THEN FALSE
    ELSE LET fiveMinutesFromNow == now + (5 * 60)
         IN keyData.tokenExpiry < fiveMinutesFromNow

(* Timers.  clearTimeout disarms the timer that this.refreshTimers holds for
   the key (a timer that fired or was cleared is not armed: NoTimer);
   this.refreshTimers.set and .delete replace the Map's entry, and a timer
   that was still armed then stays armed outside the Map. *)
clearTimeout(c, apiKey) == [c EXCEPT !.refreshTimers[apiKey] = NoTimer]

timersSet(c, apiKey, timer) ==
    [c EXCEPT !.strays = IF c.refreshTimers[apiKey] # NoTimer
                         THEN @ \cup {[key |-> apiKey, at |-> c.refreshTimers[apiKey]]}
                         ELSE @,
              !.refreshTimers[apiKey] = timer]

timersDelete(c, apiKey) == timersSet(c, apiKey, NoTimer)

scheduleTokenRefreshNoClear(c, apiKey) ==
    IF ~has(c, apiKey) \/ keyDataOf(c, apiKey).tokenExpiry = NullDate THEN c
    ELSE LET c1 == [c EXCEPT !.e.sched = @ \cup {apiKey}]
             refreshTime == keyDataOf(c, apiKey).tokenExpiry - now - (5 * 60)
         IN IF refreshTime > 0 THEN timersSet(c1, apiKey, now + refreshTime) ELSE c1

(* scheduleTokenRefresh: the timer armed fires refreshTime after now; e.sched:
   the keys for which the function went past its first return in this step *)
scheduleTokenRefresh(c, apiKey) ==
    IF ~has(c, apiKey) \/ keyDataOf(c, apiKey).tokenExpiry = NullDate THEN c
    ELSE LET cleared == clearTimeout([c EXCEPT !.e.sched = @ \cup {apiKey}], apiKey)
             refreshTime == keyDataOf(c, apiKey).tokenExpiry - now - (5 * 60)
         IN IF refreshTime > 0
            THEN timersSet(cleared, apiKey, now + refreshTime)
            ELSE cleared

----------------------------------------------------------------------------
(* refreshUserTokens *)

refreshUserTokens_catchKeepsActive(c, apiKey, cause) ==
    LET c1 == [c EXCEPT !.op.key = apiKey, !.op.cause = cause,
                        !.e.caught = TRUE, !.e.cause = cause]
    IN IF get(c1, apiKey) # NoObj THEN saveApiKeys(c1, "fail_saving") ELSE throw(c1)

(* The catch block: mark the key inactive if it is (still) in the Map, save,
   and throw the error again. *)
refreshUserTokens_catch(c, apiKey, cause) ==
    LET c1 == [c EXCEPT !.op.key = apiKey, !.op.cause = cause,
                        !.e.caught = TRUE, !.e.cause = cause]
        o == get(c1, apiKey)
    IN IF o # NoObj
       THEN saveApiKeys([c1 EXCEPT !.heap[o].active = FALSE], "fail_saving")
       ELSE throw(c1)

refreshUserTokens_callNoTokenCheck(c0, apiKey) ==
    LET c == [c0 EXCEPT !.e.trig = TRUE]
        o == get(c, apiKey)
    IN IF o = NoObj
       THEN refreshUserTokens_catch(c, apiKey, "norefresh")
       ELSE IF c.provCalls >= MaxProv THEN [c EXCEPT !.ok = FALSE]
       ELSE await([c EXCEPT !.op.key = apiKey, !.op.obj = o,
                            !.op.callNo = c.provCalls + 1,
                            !.provCalls = c.provCalls + 1], "provider")

(* Up to `await oauth2Client.refreshAccessToken()`; e.trig: the function was
   called in this step *)
refreshUserTokens_call(c0, apiKey) ==
    LET c == [c0 EXCEPT !.e.trig = TRUE]
        o == get(c, apiKey)
    IN IF o = NoObj \/ c.heap[o].refreshToken = NoTok
       THEN refreshUserTokens_catch(c, apiKey, "norefresh")
       ELSE IF c.provCalls >= MaxProv THEN [c EXCEPT !.ok = FALSE]
       ELSE await([c EXCEPT !.op.key = apiKey, !.op.obj = o,
                            !.op.callNo = c.provCalls + 1,
                            !.provCalls = c.provCalls + 1], "provider")

refreshUserTokens_credentialsTokenOnly(c, expiry_date) ==
    LET o == c.op.obj
        c1 == [c EXCEPT !.heap[o].accessToken = <<"access", c.op.callNo>>,
                        !.e.refreshed = TRUE, !.e.same = (get(c, c.op.key) = o),
                        !.e.resp = <<(<<"access", c.op.callNo>>), expiry_date>>]
    IN saveApiKeys(mapSet(c1, c.op.key, o), "refresh_saving")

(* The provider answered with credentials {access_token, expiry_date}.
   e.refreshed: this code ran in the step; e.resp: the provider's pair;
   e.same: the keyData read before the await was still the one in the Map *)
refreshUserTokens_credentials(c, expiry_date) ==
    LET o == c.op.obj
        c1 == [c EXCEPT !.heap[o].accessToken = <<"access", c.op.callNo>>,
                        !.heap[o].tokenExpiry = IF expiry_date # 0 THEN expiry_date ELSE NullDate,
                        !.e.refreshed = TRUE, !.e.same = (get(c, c.op.key) = o),
                        !.e.resp = <<(<<"access", c.op.callNo>>), expiry_date>>]
    IN saveApiKeys(mapSet(c1, c.op.key, o), "refresh_saving")

(* The provider rejected *)
refreshUserTokens_rejected(c) == refreshUserTokens_catch(c, c.op.key, "provider")

(* After the save of the refreshed tokens *)
refreshUserTokens_saved(c) ==
    LET o == c.op.obj IN return(scheduleTokenRefresh(c, c.op.key), o)

(* After the save of the catch block *)
refreshUserTokens_failsaved(c) == throw(c)

----------------------------------------------------------------------------
(* getUserByApiKey *)

getUserByApiKey_callNoActiveCheck(c, apiKey) ==
    LET o == get(c, apiKey)
        c1 == [c EXCEPT !.op.key = apiKey, !.op.inGet = TRUE]
    IN IF o = NoObj THEN return(c1, NoObj)
       ELSE saveApiKeys([c1 EXCEPT !.heap[o].lastUsed = now, !.op.obj = o], "get_saving")

(* Up to `await this.saveApiKeys()` *)
getUserByApiKey_call(c, apiKey) ==
    LET o == get(c, apiKey)
        c1 == [c EXCEPT !.op.key = apiKey, !.op.inGet = TRUE]
    IN IF o = NoObj \/ ~c.heap[o].active THEN return(c1, NoObj)
       ELSE saveApiKeys([c1 EXCEPT !.heap[o].lastUsed = now, !.op.obj = o], "get_saving")

(* `return this.apiKeys.get(apiKey)` once refreshUserTokens has returned; its
   throw is not caught here *)
getUserByApiKey_refreshed(c) ==
    IF c.status = "return" THEN return(c, get(c, c.op.key)) ELSE c

getUserByApiKey_savedNoRefresh(c) ==
    LET keyData == c.heap[c.op.obj]
    IN return([c EXCEPT !.e.decided = TRUE, !.e.exp = keyData.tokenExpiry], c.op.obj)

(* After the save of lastUsed: the check of needsTokenRefresh; e.decided and
   e.exp: the check ran in this step, on this tokenExpiry *)
getUserByApiKey_saved(c) ==
    LET keyData == c.heap[c.op.obj]
        c1 == [c EXCEPT !.e.decided = TRUE, !.e.exp = keyData.tokenExpiry]
    IN IF needsTokenRefresh(keyData)
       THEN getUserByApiKey_refreshed(refreshUserTokens_call(c1, c.op.key))
       ELSE return(c1, c.op.obj)

----------------------------------------------------------------------------
(* createApiKey: apiKey is what crypto.randomBytes(4) gave *)

createApiKey_call(c, apiKey, userInfo, tokens) ==
    LET keyData == [userId |-> userInfo.id, email |-> userInfo.email, name |-> userInfo.name,
                    accessToken |-> tokens.access_token,
                    refreshToken |-> tokens.refresh_token,
                    tokenExpiry |-> IF tokens.expiry_date # 0 THEN tokens.expiry_date
                                    ELSE NullDate,
                    createdAt |-> now, lastUsed |-> now, active |-> TRUE]
        o == newObj(c)
        c1 == [c EXCEPT !.heap[o] = keyData, !.op.key = apiKey]
    IN saveApiKeys(mapSet(c1, apiKey, o), "create_saving")

createApiKey_saved(c) == return(scheduleTokenRefresh(c, c.op.key), get(c, c.op.key))

----------------------------------------------------------------------------
(* getUserApiKeys *)

(* The object pushed for an entry of the Map *)
userKey(c, entry) ==
    LET keyData == c.heap[entry.obj]
    IN [apiKey |-> entry.key, createdAt |-> keyData.createdAt, lastUsed |-> keyData.lastUsed,
        active |-> keyData.active, tokenExpiry |-> keyData.tokenExpiry]

getUserApiKeysActiveOnly(c, userId) ==
    LET kept == SelectSeq(c.apiKeys, LAMBDA entry : /\ c.heap[entry.obj].userId = userId
                                                    /\ c.heap[entry.obj].active)
    IN [i \in 1..Len(kept) |-> userKey(c, kept[i])]

RECURSIVE pushUserKeys(_, _, _, _)
pushUserKeys(c, userId, i, userKeys) ==
    IF i > Len(c.apiKeys) THEN userKeys
    ELSE pushUserKeys(c, userId, i + 1,
                      IF c.heap[c.apiKeys[i].obj].userId = userId
                      THEN Append(userKeys, userKey(c, c.apiKeys[i]))
                      ELSE userKeys)

(* The loop over this.apiKeys.entries(), in the Map's order *)
getUserApiKeys(c, userId) == pushUserKeys(c, userId, 1, <<>>)

----------------------------------------------------------------------------
(* revokeApiKey *)

revokeApiKey_call(c, apiKey) ==
    LET o == get(c, apiKey)
        c1 == [c EXCEPT !.op.key = apiKey]
    IN IF o # NoObj
       THEN saveApiKeys([c1 EXCEPT !.heap[o].active = FALSE,
                                   !.op.changed = c.heap[o].active,
                                   !.e.changed = c.heap[o].active], "revoke_saving")
       ELSE returnBool(c1, FALSE)

revokeApiKey_saved(c) ==
    returnBool([timersDelete(clearTimeout(c, c.op.key), c.op.key)
                    EXCEPT !.revoked = @ \cup {c.op.key}], TRUE)

----------------------------------------------------------------------------
(* cleanup *)

cleanup_callLe(c) ==
    LET thirtyDaysAgo == now - (30 * 24 * 60 * 60)
        old == {k \in Keys : /\ has(c, k)
                             /\ ~keyDataOf(c, k).active
                             /\ keyDataOf(c, k).lastUsed <= thirtyDaysAgo}
        c1 == [c EXCEPT !.apiKeys = SelectSeq(c.apiKeys, LAMBDA entry : entry.key \notin old),
                        !.refreshTimers = [k \in Keys |-> IF k \in old THEN NoTimer
                                                          ELSE c.refreshTimers[k]],
                        !.op.removed = Cardinality(old),
                        !.e.removed = Cardinality(old)]
    IN IF Cardinality(old) > 0 THEN saveApiKeys(c1, "cleanup_saving")
       ELSE [return(c1, NoObj) EXCEPT !.e.ret = Undefined]

(* The loop over the entries: each old one is deleted and its timer cleared
   and deleted; then the save, if anything was removed.  The function has no
   return statement. *)
cleanup_call(c) ==
    LET thirtyDaysAgo == now - (30 * 24 * 60 * 60)
        old == {k \in Keys : /\ has(c, k)
                             /\ ~keyDataOf(c, k).active
                             /\ keyDataOf(c, k).lastUsed < thirtyDaysAgo}
        c1 == [c EXCEPT !.apiKeys = SelectSeq(c.apiKeys, LAMBDA entry : entry.key \notin old),
                        !.refreshTimers = [k \in Keys |-> IF k \in old THEN NoTimer
                                                          ELSE c.refreshTimers[k]],
                        !.op.removed = Cardinality(old),
                        !.e.removed = Cardinality(old)]
    IN IF Cardinality(old) > 0 THEN saveApiKeys(c1, "cleanup_saving")
       ELSE [return(c1, NoObj) EXCEPT !.e.ret = Undefined]

cleanup_saved(c) == [return(c, NoObj) EXCEPT !.e.ret = Undefined]

----------------------------------------------------------------------------
(* init: loadApiKeys, then setupAutoRefresh *)

RECURSIVE loadEntries(_, _, _)
loadEntries(c, parsed, i) ==
    IF i > Len(parsed) THEN c
    ELSE LET o == newObj(c)
             c1 == mapSet([c EXCEPT !.heap[o] = fromJSON(parsed[i].value)], parsed[i].key, o)
         IN loadEntries(c1, parsed, i + 1)

(* The file is read when readFile completes; ENOENT leaves the Map as it is *)
loadApiKeys(c) == IF disk.exists THEN loadEntries(c, disk.data, 1) ELSE c

RECURSIVE setupEntries(_, _)
setupEntries(c, i) ==
    IF i > Len(c.apiKeys) THEN c
    ELSE LET apiKey == c.apiKeys[i].key
             keyData == c.heap[c.apiKeys[i].obj]
         IN setupEntries(IF keyData.active /\ keyData.tokenExpiry # NullDate
                         THEN scheduleTokenRefresh(c, apiKey) ELSE c, i + 1)

setupAutoRefresh(c) == setupEntries(c, 1)

init_loaded(c) == return(setupAutoRefresh(loadApiKeys(c)), NoObj)

----------------------------------------------------------------------------
(* DELETE /keys/:keyId (routes/auth.js) *)

respond(c, code) ==
    [c EXCEPT !.live = FALSE, !.status = "done", !.e.what = "return", !.e.http = code,
              !.e.ok = (code = "200"), !.e.by = c.op.user, !.e.target = c.op.target]

delete_afterRevoke(c) ==
    IF c.status = "wait" THEN [c EXCEPT !.e.by = c.op.user]
    ELSE IF c.status = "throw" THEN respond(c, "500")
    ELSE IF c.flag THEN respond(c, "200") ELSE respond(c, "404")

delete_afterTarget(c) ==
    IF c.status = "wait" THEN [c EXCEPT !.e.by = c.op.user]
    ELSE IF c.status = "throw" THEN respond(c, "500")
    ELSE IF c.val = NoObj \/ c.heap[c.val].userId # c.op.user THEN respond(c, "403")
    ELSE delete_afterRevoke(revokeApiKey_call([c EXCEPT !.op.phase = "revoke"], c.op.target))

delete_afterAuth(c) ==
    IF c.status = "wait" THEN c
    ELSE IF c.status = "throw" THEN respond(c, "500")
    ELSE IF c.val = NoObj THEN respond(c, "401")
    ELSE delete_afterTarget(
            getUserByApiKey_call([c EXCEPT !.op.user = c.heap[c.val].userId,
                                           !.op.phase = "target"], c.op.target))

delete_call(c, caller, keyToRevoke) ==
    delete_afterAuth(
        getUserByApiKey_call([c EXCEPT !.op.caller = caller, !.op.target = keyToRevoke,
                                       !.op.phase = "auth", !.e.target = keyToRevoke], caller))

----------------------------------------------------------------------------
(* What the caller of the manager sees *)

(* The end of a call of the manager itself; the timer's callback catches and
   logs what refreshUserTokens throws. *)
outcome(c) ==
    IF c.status = "wait" THEN c
    ELSE [c EXCEPT !.live = FALSE,
                   !.e.what = c.status,
                   !.e.ok = c.flag,
                   !.e.rec = IF c.op.kind = "issue" THEN c.op.arg
                             ELSE IF c.val # NoObj THEN c.heap[c.val] ELSE NoRec]

(* The caller's code after the manager function that ran *)
caller(c) ==
    IF c.op.kind # "delete" THEN outcome(c)
    ELSE IF c.op.phase = "auth" THEN delete_afterAuth(c)
    ELSE IF c.op.phase = "target" THEN delete_afterTarget(c)
    ELSE delete_afterRevoke(c)

(* The code that runs when the write awaited by operation c.op has ended *)
afterSave(c) ==
    LET pc == c.op.pc
        inGet == c.op.inGet
    IN caller(
        IF pc = "create_saving" THEN createApiKey_saved(c)
        ELSE IF pc = "get_saving" THEN getUserByApiKey_saved(c)
        ELSE IF pc = "refresh_saving"
             THEN IF inGet THEN getUserByApiKey_refreshed(refreshUserTokens_saved(c))
                  ELSE refreshUserTokens_saved(c)
        ELSE IF pc = "fail_saving"
             THEN IF inGet THEN getUserByApiKey_refreshed(refreshUserTokens_failsaved(c))
                  ELSE refreshUserTokens_failsaved(c)
        ELSE IF pc = "revoke_saving" THEN revokeApiKey_saved(c)
        ELSE cleanup_saved(c))

(* The code that runs when the provider has answered operation c.op *)
afterProvider(c, accepted, expiry_date) ==
    LET inGet == c.op.inGet
        r == IF accepted THEN refreshUserTokens_credentials(c, expiry_date)
             ELSE refreshUserTokens_rejected(c)
    IN caller(IF inGet THEN getUserByApiKey_refreshed(r) ELSE r)

----------------------------------------------------------------------------
(* The state machine *)

NoTimers == [k \in Keys |-> NoTimer]
EmptyHeap == [o \in ObjIds |-> NoRec]

(* The process starts: the constructor has made both Maps empty and called
   init, which waits for the file that the run before left: no file, or the
   JSON text of that run's store. *)
Init ==
    /\ previous \in PreviousStores
    /\ apiKeys = <<>>
    /\ heap = EmptyHeap
    /\ refreshTimers = NoTimers
    /\ strays = {}
    /\ revoked = {}
    /\ disk = [exists |-> previous.saved,
               data |-> [i \in 1..Len(previous.entries) |->
                            [key |-> previous.entries[i].key,
                             value |-> toJSON(previous.entries[i].keyData)]]]
    /\ ops = SetToBag({[OpAfter("init", NoPred) EXCEPT !.pc = "reading"]})
    /\ now = StartTime
    /\ provCalls = 0
    /\ answered = <<>>
    /\ calls = 0
    /\ wfails = 0
    /\ ev = NoEv

Idle == ops = EmptyBag

(* The step ends in configuration c; rest are the other operations in flight.
   Objects nothing refers to any more are dropped. *)
Commit(c, rest) ==
    /\ c.ok
    /\ LET newOps == IF c.live THEN rest (+) SetToBag({c.op}) ELSE rest
           refs == RefsOfMap(c.apiKeys) \cup RefsOfOps(newOps)
       IN /\ ops' = newOps
          /\ heap' = [o \in ObjIds |-> IF o \in refs THEN c.heap[o] ELSE NoRec]
    /\ apiKeys' = c.apiKeys
    /\ refreshTimers' = c.refreshTimers
    /\ strays' = c.strays
    /\ revoked' = c.revoked
    /\ provCalls' = c.provCalls
    /\ ev' = c.e

CanInvoke == calls < MaxCalls /\ BagCardinality(ops) < MaxOps

Invoked(c) ==
    /\ CanInvoke
    /\ Commit(c, ops)
    /\ calls' = calls + 1
    /\ UNCHANGED <<disk, now, wfails, previous, answered>>

(* issue: the OAuth callback calls createApiKey *)
Issue(apiKey, userInfo, refresh_token, expiry_date) ==
    LET given == [NoRec EXCEPT !.userId = userInfo.id, !.accessToken = IssuedAccessToken,
                               !.refreshToken = refresh_token, !.tokenExpiry = expiry_date]
    IN Invoked(caller(createApiKey_call([Invoke("issue") EXCEPT !.op.arg = given],
                apiKey, userInfo,
                [access_token |-> IssuedAccessToken, refresh_token |-> refresh_token,
                 expiry_date |-> expiry_date])))

(* resolve: a caller calls getUserByApiKey *)
Resolve(apiKey) == Invoked(caller(getUserByApiKey_call(Invoke("resolve"), apiKey)))

(* refresh: a caller (the authentication middleware) calls refreshUserTokens *)
Refresh(apiKey) == Invoked(caller(refreshUserTokens_call(Invoke("refresh"), apiKey)))

(* revoke: a caller calls revokeApiKey *)
Revoke(apiKey) == Invoked(caller(revokeApiKey_call(Invoke("revoke"), apiKey)))

(* DELETE /keys/:keyId with X-API-Key: callerKey *)
Delete(callerKey, keyToRevoke) == Invoked(delete_call(Invoke("delete"), callerKey, keyToRevoke))

(* The 24-hour interval calls cleanup *)
Cleanup == Invoked(caller(cleanup_call(Invoke("cleanup"))))

(* A caller (GET /keys) calls getUserApiKeys, which does not await *)
List(userId) ==
    /\ calls < MaxCalls
    /\ calls' = calls + 1
    /\ ev' = [NoEv EXCEPT !.op = "list", !.first = TRUE, !.what = "return", !.by = userId,
                          !.list = getUserApiKeys(Invoke("list"), userId)]
    /\ UNCHANGED <<apiKeys, heap, refreshTimers, strays, revoked, disk, ops, now, provCalls,
                   answered, wfails, previous>>

(* The timers armed for apiKey, in the Map or not *)
Armed(apiKey) ==
    {[key |-> apiKey, at |-> refreshTimers[apiKey], held |-> TRUE] :
        x \in IF refreshTimers[apiKey] # NoTimer THEN {0} ELSE {}}
    \cup {[key |-> apiKey, at |-> t.at, held |-> FALSE] : t \in {t \in strays : t.key = apiKey}}

(* A timer armed for apiKey fires: its callback calls refreshUserTokens *)
TimerFire(apiKey) ==
    \E timer \in Armed(apiKey) :
        /\ now >= timer.at
        /\ LET c == Invoke("timer")
               fired == IF timer.held THEN [c EXCEPT !.refreshTimers[apiKey] = NoTimer]
                        ELSE [c EXCEPT !.strays = @ \ {[key |-> apiKey, at |-> timer.at]}]
           IN Invoked(caller(refreshUserTokens_call(fired, apiKey)))

(* The write awaited by operation o ends: written, or failed *)
WriteDone(o, written) ==
    /\ o \in BagToSet(ops)
    /\ o.pc \in {"create_saving", "get_saving", "refresh_saving", "fail_saving",
                 "revoke_saving", "cleanup_saving"}
    /\ written \/ wfails < MaxWriteFails
    /\ wfails' = IF written THEN wfails ELSE wfails + 1
    /\ disk' = writeFile(o, written)
    /\ Commit(afterSave(Resume([o EXCEPT !.wfail = o.wfail \/ ~written])),
              ops (-) SetToBag({o}))
    /\ UNCHANGED <<now, calls, previous, answered>>

(* The provider answers the refreshAccessToken call of operation o *)
ProviderAnswer(o, accepted, expiry_date) ==
    /\ o \in BagToSet(ops)
    /\ o.pc = "provider"
    /\ LET short == accepted /\ expiry_date # 0 /\ expiry_date <= now + FiveMinutes
       IN Commit(afterProvider(Resume([o EXCEPT !.short = o.short \/ short]),
                               accepted, expiry_date),
                 ops (-) SetToBag({o}))
    /\ answered' = IF accepted
                   THEN Append(answered, [key |-> o.key, kind |-> o.kind,
                                          access_token |-> <<"access", o.callNo>>,
                                          expiry_date |-> expiry_date])
                   ELSE answered
    /\ UNCHANGED <<disk, now, calls, wfails, previous>>

(* readFile of init completes *)
LoadDone(o) ==
    /\ o \in BagToSet(ops)
    /\ o.pc = "reading"
    /\ Commit(caller(init_loaded(Resume(o))), ops (-) SetToBag({o}))
    /\ UNCHANGED <<disk, now, calls, wfails, previous, answered>>

(* The clock advances by a minute.  A read or write of the file takes
   milliseconds, so the step does not fall inside one; a call of the provider
   can take that long. *)
Tick ==
    /\ now < StartTime + MaxTicks * Minute
    /\ \A o \in BagToSet(ops) : o.pc = "provider"
    /\ now' = now + Minute
    /\ ev' = [NoEv EXCEPT !.op = "tick"]
    /\ UNCHANGED <<apiKeys, heap, refreshTimers, strays, revoked, disk, ops, provCalls,
                   answered, calls, wfails, previous>>

IssueAny ==
    \E to \in IssuedTo, tokens \in IssuedTokens :
        \E userInfo \in {u \in UserInfos : u.id = to[2]} :
            Issue(to[1], userInfo, tokens.refresh_token,
                  IF tokens.ahead = 0 THEN 0 ELSE now + tokens.ahead)
ResolveAny == \E apiKey \in Keys : Resolve(apiKey)
RefreshAny == \E apiKey \in Keys : Refresh(apiKey)
RevokeAny == \E apiKey \in Keys : Revoke(apiKey)
ListAny == \E userInfo \in UserInfos : List(userInfo.id)
DeleteAny == \E callerKey \in Keys, keyToRevoke \in Keys : Delete(callerKey, keyToRevoke)
TimerFireAny == \E apiKey \in Keys : TimerFire(apiKey)
WriteDoneAny == \E o \in BagToSet(ops), written \in BOOLEAN : WriteDone(o, written)
ProviderAnswerAny ==
    \E o \in BagToSet(ops), accepted \in BOOLEAN,
       expiry_date \in {0} \cup {now + d : d \in ProviderOffsets} :
        ProviderAnswer(o, accepted, expiry_date)
LoadDoneAny == \E o \in BagToSet(ops) : LoadDone(o)

Next ==
    \/ IssueAny
    \/ ResolveAny
    \/ RefreshAny
    \/ RevokeAny
    \/ ListAny
    \/ DeleteAny
    \/ Cleanup
    \/ TimerFireAny
    \/ Tick
    \/ WriteDoneAny
    \/ ProviderAnswerAny
    \/ LoadDoneAny

(* Any interleaving of the operations *)
Spec == Init /\ [][Next]_vars

(* One operation at a time: nothing is invoked, no timer fires and the clock
   does not advance while an operation waits *)
NextSeq ==
    \/ Idle /\ IssueAny
    \/ Idle /\ ResolveAny
    \/ Idle /\ RefreshAny
    \/ Idle /\ RevokeAny
    \/ Idle /\ ListAny
    \/ Idle /\ DeleteAny
    \/ Idle /\ Cleanup
    \/ Idle /\ TimerFireAny
    \/ Idle /\ Tick
    \/ WriteDoneAny
    \/ ProviderAnswerAny
    \/ LoadDoneAny

SpecSeq == Init /\ [][NextSeq]_vars

(* init has ended: the file of the earlier run has been read *)
Started == \A o \in BagToSet(ops) : o.pc # "reading"

(* Any interleaving of operations that are invoked after init ended *)
NextStarted ==
    \/ Started /\ IssueAny
    \/ Started /\ ResolveAny
    \/ Started /\ RefreshAny
    \/ Started /\ RevokeAny
    \/ Started /\ ListAny
    \/ Started /\ DeleteAny
    \/ Started /\ Cleanup
    \/ Started /\ TimerFireAny
    \/ Started /\ Tick
    \/ WriteDoneAny
    \/ ProviderAnswerAny
    \/ LoadDoneAny

SpecStarted == Init /\ [][NextStarted]_vars

----------------------------------------------------------------------------
(* Properties *)

Here == [apiKeys |-> apiKeys, heap |-> heap]
Stored(k) == has(Here, k)
Active(k) == Stored(k) /\ keyDataOf(Here, k).active
Inactive(k) == Stored(k) /\ ~keyDataOf(Here, k).active

(* The last step ended a call of the manager *)
Ended == ev.what \in {"return", "throw"}

(* The last step was getUserByApiKey(k) called right after refreshUserTokens(k)
   threw what the provider's rejection made it throw *)
ResolvedAfterRejection ==
    /\ ev.op = "resolve" /\ ev.first
    /\ ev.pred.what = "throw" /\ ev.pred.cause = "provider" /\ ev.pred.key = ev.key

(* C1: when a refresh of key K (called by resolve, by the timer or by a caller)
   ends in the failure that the provider's rejection caused, the record stored
   under K has active = false, and a resolve of K called next returns absent. *)
C1_FailClosed ==
    /\ (ev.what = "throw" /\ ev.cause = "provider") => Inactive(ev.key)
    /\ ResolvedAfterRejection => (ev.what = "return" /\ ~ev.ok /\ ev.rec = NoRec)

C1_Witness ==
    /\ ResolvedAfterRejection
    /\ ev.pred.op = "timer"
    /\ ev.what = "return" /\ ~ev.ok
    /\ Inactive(ev.key)

(* C2: resolve never raises: when the refresh it called failed, resolve
   returns absent. *)
C2_ResolveNeverRaises ==
    (ev.op = "resolve" /\ Ended /\ ev.cause # "") => (ev.what = "return" /\ ~ev.ok)

(* C3: a resolve of a key that is not stored, or whose record is inactive,
   returns absent at once, the same result in both cases, and changes neither
   the store, nor the timers, nor the file (nor does it leave anything
   waiting). *)
C3_AbsentResolveChangesNothing ==
    [][\A k \in Keys :
         (ev'.op = "resolve" /\ ev'.first /\ ev'.key = k /\ ~Active(k))
           => /\ ev'.what = "return" /\ ~ev'.ok /\ ev'.rec = NoRec
              /\ UNCHANGED <<apiKeys, heap, refreshTimers, strays, disk, ops>>]_vars

C3_Witness ==
    /\ ev.op = "resolve" /\ ev.first /\ ev.what = "return" /\ ~ev.ok
    /\ Inactive(ev.key)
    /\ \E k \in Keys : Active(k)

(* C4: once the record stored under K has active = false, the record stored
   under K never has active = true again. *)
C4_InactiveForEver ==
    [][\A k \in Keys : Inactive(k) => ~Active(k)']_vars

(* C5: a DELETE of key K by a subject other than the one K's record names is
   refused and leaves the record active. *)
C5_NonOwnerRevokeRefused ==
    [][\A k \in Keys :
         (/\ ev'.op = "delete" /\ ev'.target = k /\ ev'.by # ""
          /\ Active(k) /\ keyDataOf(Here, k).userId # ev'.by)
           => /\ Active(k)'
              /\ ev'.what = "return" => ev'.http = "403"]_vars

(* The token set given to createApiKey expires far off *)
FarOff(tokenExpiry) == tokenExpiry = NullDate \/ tokenExpiry > now + FiveMinutes

(* The last step belongs to a getUserByApiKey called right after createApiKey
   returned its key, for a token set that expires far off *)
ResolvingAfterIssue ==
    /\ ev.op = "resolve"
    /\ ev.pred.op = "issue" /\ ev.pred.key = ev.key
    /\ FarOff(ev.pred.rec.tokenExpiry)

(* C6: issue followed at once by resolve of the returned key returns a record
   with the identity's id and the issued access token, and the provider is
   not called. *)
C6_IssueThenResolve ==
    ResolvingAfterIssue =>
        /\ provCalls = ev.pred.prov
        /\ Ended => /\ ev.what = "return" /\ ev.ok
                    /\ ev.rec.userId = ev.pred.rec.userId
                    /\ ev.rec.accessToken = ev.pred.rec.accessToken

C6_Witness ==
    /\ ResolvingAfterIssue /\ ev.what = "return" /\ ev.ok
    /\ ev.rec.tokenExpiry = now + 6 * Minute
    /\ ev.rec.userId = "u2"

(* C7: the check that resolve makes on the record calls refreshUserTokens
   exactly when tokenExpiry is not null and less than five minutes after now;
   four minutes ahead it does, six minutes ahead and with null it does not. *)
C7_RefreshExactlyInWindow ==
    ev.decided =>
        /\ ev.trig <=> (ev.exp # NullDate /\ ev.exp < now + FiveMinutes)
        /\ ev.exp = now + 4 * Minute => ev.trig
        /\ ev.exp = now + 6 * Minute => ~ev.trig
        /\ ev.exp = NullDate => ~ev.trig

C7_Witness == ev.op = "resolve" /\ ev.decided /\ ~ev.trig /\ ev.exp = now + FiveMinutes

(* C8: a record that resolve returns has a tokenExpiry that is null or at
   least five minutes ahead, when the provider answered with an expiry more
   than five minutes ahead. *)
C8_ReturnedTokenNotExpiring ==
    (ev.op = "resolve" /\ ev.what = "return" /\ ev.ok /\ ~ev.short)
        => (ev.rec.tokenExpiry = NullDate \/ ev.rec.tokenExpiry >= now + FiveMinutes)

C8_Witness ==
    /\ ev.op = "resolve" /\ ev.what = "return" /\ ev.ok /\ ~ev.short
    /\ ev.rec.accessToken # IssuedAccessToken
    /\ ev.rec.tokenExpiry = now + 6 * Minute

DiskIsStore ==
    IF disk.exists THEN disk.data = stringify(Here) ELSE apiKeys = <<>>
OnDisk(k) == disk.exists /\ \E i \in 1..Len(disk.data) : disk.data[i].key = k

(* C9: an issue, revoke or refresh during which the write of the file failed
   ends in an error and leaves store and file equal; issue never returns a key
   that is not in the file. *)
C9_WriteFailureReported ==
    /\ (ev.op \in {"issue", "revoke", "refresh"} /\ Ended /\ ev.wfail)
           => (ev.what = "throw" /\ DiskIsStore)
    /\ (ev.op = "issue" /\ ev.what = "return") => OnDisk(ev.key)

PreviousKeys == {previous.entries[i].key : i \in 1..Len(previous.entries)}
PreviousData(k) ==
    previous.entries[CHOOSE i \in 1..Len(previous.entries) : previous.entries[i].key = k].keyData
WasActive(k) == k \in PreviousKeys /\ PreviousData(k).active
NonSecret(keyData) ==
    [userId |-> keyData.userId, email |-> keyData.email, name |-> keyData.name,
     createdAt |-> keyData.createdAt, active |-> keyData.active,
     tokenExpiry |-> keyData.tokenExpiry]

(* The last step ended a getUserByApiKey called right after init returned *)
ResolvedAfterLoad == ev.op = "resolve" /\ Ended /\ ev.pred.op = "init"

(* C10, as the specification states it: after the reload, resolve of every key
   that was active succeeds with the non-secret fields it had, and resolve of
   an inactive key returns absent. *)
C10_ReloadThenResolve ==
    ResolvedAfterLoad =>
        IF WasActive(ev.key)
        THEN /\ ev.what = "return" /\ ev.ok
             /\ NonSecret(ev.rec) = NonSecret(PreviousData(ev.key))
        ELSE ev.what = "return" /\ ~ev.ok

(* C10, amended: the reload gives every record the non-secret fields it had;
   resolve of a key that was active, whose tokenExpiry is null or at least
   five minutes ahead, succeeds with these fields; resolve of an inactive key
   returns absent. *)
C10_ReloadRoundTrip ==
    /\ (ev.op = "init" /\ ev.what = "return") =>
           \A k \in PreviousKeys :
               Stored(k) /\ NonSecret(keyDataOf(Here, k)) = NonSecret(PreviousData(k))
    /\ ResolvedAfterLoad =>
           IF WasActive(ev.key)
           THEN ~needsTokenRefresh(PreviousData(ev.key)) =>
                   /\ ev.what = "return" /\ ev.ok
                   /\ NonSecret(ev.rec) = NonSecret(PreviousData(ev.key))
           ELSE ev.what = "return" /\ ~ev.ok

C10_Witness ==
    /\ ResolvedAfterLoad /\ ev.ok
    /\ Len(previous.entries) = 2
    /\ ev.rec.tokenExpiry = NullDate
    /\ NonSecret(ev.rec) = NonSecret(PreviousData(ev.key))

(* The record stored under k is what cleanup looks for *)
Old(k) ==
    /\ Stored(k)
    /\ ~keyDataOf(Here, k).active
    /\ keyDataOf(Here, k).lastUsed < now - ThirtyDays

(* C11: cleanup removes every record that is inactive and was last used more
   than 30 days before now, and no other record. *)
C11_CleanupRemovesExactlyOld ==
    [][(ev'.op = "cleanup" /\ ev'.first) =>
          \A k \in Keys : /\ Stored(k)' <=> (Stored(k) /\ ~Old(k))
                          /\ Stored(k)' => keyDataOf(Here, k)' = keyDataOf(Here, k)]_vars

C11_Witness ==
    /\ ev.op = "cleanup" /\ ev.first /\ ev.removed = 1
    /\ \E k \in Keys : Inactive(k) /\ keyDataOf(Here, k).lastUsed >= now - ThirtyDays

(* C12: cleanup returns the number of records it removed, and a cleanup
   called right after a cleanup removes nothing and returns 0. *)
C12_CleanupReturnsCount ==
    [][/\ (ev'.op = "cleanup" /\ ev'.what = "return")
              => (ev'.ret.type = "number" /\ ev'.ret.n = ev'.removed)
       /\ (ev.op = "cleanup" /\ ev.what = "return" /\ ev'.op = "cleanup" /\ ev'.first)
              => (ev'.removed = 0 /\ ev'.what = "return" /\ ev'.ret.type = "number")]_vars

(* C13: once revokeApiKey(K) has returned true, no timer is armed for K and
   no timer starts a refresh of K, whatever else runs. *)
C13_NoTimerAfterRevoke ==
    \A k \in revoked :
        /\ Armed(k) = {}
        /\ ~(ev.op = "timer" /\ ev.first /\ ev.key = k)

(* C14: revokeApiKey returns true exactly when it changed a record from
   active to inactive, and false for a key that is not stored and for a record
   that was inactive already. *)
C14_RevokeTrueIffChanged ==
    (ev.op = "revoke" /\ ev.what = "return") => (ev.ok <=> ev.changed)

(* C15: in every state at most one timer is armed for a key. *)
C15_OneTimerPerKey == \A k \in Keys : Cardinality(Armed(k)) <= 1

(* refreshUserTokens, the only call since the start, has rescheduled a key
   whose timer setupAutoRefresh had armed *)
C15_Witness ==
    /\ ev.op = "refresh" /\ ev.what = "return" /\ calls = 1
    /\ ev.key \in ev.sched
    /\ WasActive(ev.key) /\ PreviousData(ev.key).tokenExpiry = StartTime + 6 * Minute
    /\ Cardinality(Armed(ev.key)) = 1
    /\ refreshTimers[ev.key] = now + Minute

(* C16: scheduleTokenRefresh, for a record with an expiry, always arms a
   timer for the key: for five minutes before the expiry when that is still to
   come, and for now when it is past. *)
C16_ScheduleAlwaysArms ==
    \A k \in ev.sched :
        LET due == keyDataOf(Here, k).tokenExpiry - FiveMinutes
        IN \E timer \in Armed(k) : timer.at = IF due > now THEN due ELSE now

(* C17: when init has returned, a timer is armed for exactly the loaded
   records that are active and have an expiry. *)
C17_StartupArmsTimers ==
    (ev.op = "init" /\ ev.what = "return") =>
        \A k \in Keys :
            Stored(k) => (Armed(k) # {} <=> (/\ keyDataOf(Here, k).active
                                             /\ keyDataOf(Here, k).tokenExpiry # NullDate))

(* C18: getUserApiKeys(S) returns one summary for each record whose userId is
   S, active or not, and for no other, in the order of insertion; a summary
   holds the key, createdAt, lastUsed, active and tokenExpiry of its record and
   nothing else; no state changes. *)
C18_ListForSubject ==
    [][ev'.op = "list" =>
          LET list == ev'.list
              S == ev'.by
          IN /\ \A i \in 1..Len(list) :
                   /\ DOMAIN list[i] = {"apiKey", "createdAt", "lastUsed", "active", "tokenExpiry"}
                   /\ Stored(list[i].apiKey)
                   /\ LET keyData == keyDataOf(Here, list[i].apiKey)
                      IN /\ keyData.userId = S
                         /\ list[i].createdAt = keyData.createdAt
                         /\ list[i].lastUsed = keyData.lastUsed
                         /\ list[i].active = keyData.active
                         /\ list[i].tokenExpiry = keyData.tokenExpiry
             /\ \A k \in Keys :
                   (Stored(k) /\ keyDataOf(Here, k).userId = S)
                       => Cardinality({i \in 1..Len(list) : list[i].apiKey = k}) = 1
             /\ \A i, j \in 1..Len(list) :
                   i < j => indexOf(Here, list[i].apiKey) < indexOf(Here, list[j].apiKey)
             /\ UNCHANGED <<apiKeys, heap, refreshTimers, strays, disk, ops>>]_vars

C18_Witness ==
    /\ ev.op = "list" /\ Len(ev.list) = 2
    /\ ~ev.list[1].active /\ ev.list[2].active
    /\ indexOf(Here, ev.list[1].apiKey) = 1

(* C19: createApiKey stores the new record under a key that was not stored,
   so that the record under a stored key is never replaced and its userId
   never changes. *)
C19_IssueNeverOverwrites ==
    [][/\ (ev'.op = "issue" /\ ev'.first) => ~Stored(ev'.key)
       /\ \A k \in Keys :
             (Stored(k) /\ Stored(k)')
                 => /\ get(Here, k)' = get(Here, k)
                    /\ keyDataOf(Here, k)'.userId = keyDataOf(Here, k).userId]_vars

(* C20: when no operation is in progress, no timer is armed for a key that is
   not stored or whose record is inactive. *)
C20_NoTimerForDeadKey ==
    Idle => \A k \in Keys : Armed(k) # {} => Active(k)

(* The store after the step *)
There == [apiKeys |-> apiKeys', heap |-> heap']

(* C21: the step of refreshUserTokens(K) that takes the provider's answer gives
   K's record the access token and the expiry of that one answer, both in the
   same step, and changes no other field of the record and no other record
   (K's record being the one the function read before it called the
   provider). *)
C21_RefreshUpdatesPairOnly ==
    [][(ev'.refreshed /\ ev'.same) =>
          LET k == ev'.key
              before == keyDataOf(Here, k)
              after == keyDataOf(There, k)
          IN /\ has(There, k)
             /\ after = [before EXCEPT !.accessToken = ev'.resp[1],
                                       !.tokenExpiry = IF ev'.resp[2] # 0 THEN ev'.resp[2]
                                                       ELSE NullDate]
             /\ apiKeys' = apiKeys
             /\ \A k2 \in Keys \ {k} :
                   Stored(k2) => keyDataOf(Here, k2)' = keyDataOf(Here, k2)]_vars

C21_Witness ==
    /\ ev.refreshed /\ ev.same /\ ev.op = "timer"
    /\ Len(apiKeys) = 2
    /\ keyDataOf(Here, ev.key).accessToken = ev.resp[1]
    /\ keyDataOf(Here, ev.key).tokenExpiry = now + 6 * Minute

(* C22: refreshUserTokens(K) fails without calling the provider when K is not
   stored or K's record has no refresh token; for a K that is not stored it
   creates no record and leaves store and file as they are, and for a record
   without refresh token it marks the record inactive. *)
C22_RefreshWithoutToken ==
    [][/\ (ev'.trig /\ ~Stored(ev'.key))
            => /\ provCalls' = provCalls
               /\ UNCHANGED <<apiKeys, heap, disk>>
               /\ ev'.op \in {"refresh", "timer"} => ev'.what = "throw"
       /\ (ev'.trig /\ Stored(ev'.key) /\ keyDataOf(Here, ev'.key).refreshToken = NoTok)
            => /\ provCalls' = provCalls
               /\ has(There, ev'.key) /\ ~keyDataOf(There, ev'.key).active
               /\ ev'.caught
       /\ (ev'.cause = "norefresh" /\ ev'.what \in {"return", "throw"}
               /\ ev'.op \in {"refresh", "timer", "resolve"})
            => ev'.what = "throw"]_vars

C22_Witness ==
    /\ ev.op = "refresh" /\ ev.what = "throw" /\ ev.cause = "norefresh"
    /\ Inactive(ev.key) /\ keyDataOf(Here, ev.key).refreshToken = NoTok
    /\ provCalls = 0

(* C23: refreshUserTokens(K) on a record that is inactive fails: it does not
   call the provider, does not change the record's access token or expiry, and
   arms no timer for K. *)
C23_RefreshRefusesInactive ==
    [][\A k \in Keys :
         (ev'.op \in {"refresh", "timer"} /\ ev'.key = k /\ Inactive(k))
           => /\ ev'.trig => (provCalls' = provCalls /\ ev'.what = "throw")
              /\ Stored(k)'
                    => /\ keyDataOf(Here, k)'.accessToken = keyDataOf(Here, k).accessToken
                       /\ keyDataOf(Here, k)'.tokenExpiry = keyDataOf(Here, k).tokenExpiry
              /\ Armed(k) = {} => Armed(k)' = {}]_vars

(* The only two calls so far were a timer's refresh and a resolve of the same
   key, the provider has accepted both refreshes, and both calls have ended *)
BothRefreshed ==
    /\ Idle /\ calls = 2 /\ provCalls = 2 /\ Len(answered) = 2
    /\ {answered[1].kind, answered[2].kind} = {"timer", "resolve"}
    /\ answered[1].key = answered[2].key

(* The expiry a record holds after it took the answer *)
expiryOf(answer) == IF answer.expiry_date # 0 THEN answer.expiry_date ELSE NullDate

(* No stored record holds the token of one answer with the expiry of another *)
PairsNotMixed ==
    \A k \in Keys, i \in 1..Len(answered) :
        (Stored(k) /\ keyDataOf(Here, k).accessToken = answered[i].access_token)
            => keyDataOf(Here, k).tokenExpiry = expiryOf(answered[i])

(* C24: when a timer's refresh and a resolve's refresh of the same key overlap
   and the provider accepts both, the record ends active with the token and
   the expiry of the answer that came last, exactly one timer is armed for
   that expiry, and no state holds the token of one answer with the expiry of
   the other. *)
C24_OverlapEndsWithLastAnswer ==
    /\ PairsNotMixed
    /\ BothRefreshed =>
         LET k == answered[2].key
         IN /\ Active(k)
            /\ keyDataOf(Here, k).accessToken = answered[2].access_token
            /\ keyDataOf(Here, k).tokenExpiry = expiryOf(answered[2])
            /\ answered[2].expiry_date # 0 =>
                 Armed(k) = {[key |-> k, at |-> answered[2].expiry_date - FiveMinutes,
                              held |-> TRUE]}


(* C25: lastUsed of a record is changed only by a successful resolve of its
   key, which sets it to the current time: a resolve that returns absent or
   fails (one whose refresh fails included) leaves it as it was, the steps of
   refresh, revoke and cleanup leave it as it was, and it never decreases. *)
C25_LastUsedOnlyBySuccessfulResolve ==
    [][\A k \in Keys :
         /\ (ResolvedAfterLoad' /\ ev'.key = k /\ k \in PreviousKeys /\ Stored(k)') =>
               IF ev'.what = "return" /\ ev'.ok
               THEN /\ keyDataOf(Here, k)'.lastUsed >= StartTime
                    /\ keyDataOf(Here, k)'.lastUsed <= now'
               ELSE keyDataOf(Here, k)'.lastUsed = PreviousData(k).lastUsed
         /\ (ev'.op \in {"refresh", "timer", "revoke", "cleanup"} /\ Stored(k) /\ Stored(k)')
               => keyDataOf(Here, k)'.lastUsed = keyDataOf(Here, k).lastUsed
         /\ (Stored(k) /\ Stored(k)')
               => keyDataOf(Here, k)'.lastUsed >= keyDataOf(Here, k).lastUsed]_vars

(* C26: writes of the file started by overlapping operations take effect in
   the order of the changes of the store, so that once every write that was
   started has completed the file equals the store.  Stated for runs in which
   no write failed and in which a write has been made (without one the file
   is as the earlier run left it). *)
C26_WritesTakeEffectInOrder ==
    (Idle /\ wfails = 0 /\ ev.op \notin {"", "init", "tick", "list"} /\ Ended) => DiskIsStore

(* C27: a key that cleanup removed stays absent from then on, in every
   interleaving, a refresh of the key that was waiting while cleanup ran
   included: nothing puts it back.  Only cleanup takes keys out of the store,
   so after init a key that is not stored was removed by cleanup or never
   issued; the statement is that only an issue of the key (or the load) makes
   a key stored that was not. *)
C27_RemovedStaysRemoved ==
    [][\A k \in Keys :
         (~Stored(k) /\ Stored(k)') => ev'.op \in {"issue", "init"}]_vars

(* init, and every call made while it was reading the file, have ended: either
   init ended last (before the load the store is empty, so of the calls made
   till then only an issue changes anything), or the only call was an issue
   and it ended last *)
StartupOver ==
    /\ Idle /\ Ended /\ wfails = 0
    /\ ev.op = "init" \/ (ev.op = "issue" /\ calls = 1)

(* C28: operations that run before the load of startup has finished lose no
   data: once init and the calls interleaved with it have ended, every record
   that was in the file at the start is in the store and in the file, and the
   record issued during startup is stored as it was issued. *)
C28_StartupLosesNothing ==
    /\ StartupOver => \A k \in PreviousKeys : Stored(k) /\ OnDisk(k)
    /\ (StartupOver /\ ev.op = "issue" /\ ev.what = "return") =>
          /\ Stored(ev.key) /\ OnDisk(ev.key)
          /\ keyDataOf(Here, ev.key).userId = ev.rec.userId
          /\ keyDataOf(Here, ev.key).refreshToken = ev.rec.refreshToken

(* C29: the record a resolve returns is active at the moment the resolve
   returns, in every interleaving, a revoke or a failing refresh of the key
   that ran while the resolve was waiting for its save or its refresh
   included. *)
C29_ResolvedRecordIsActive ==
    (ev.op = "resolve" /\ ev.what = "return" /\ ev.ok) => ev.rec.active

(* The last step answered DELETE /keys/k, the only call since the load, made
   with the key of a subject other than the one the record of k names *)
DeletedByOther(k) ==
    /\ ev.op = "delete" /\ ev.what = "return" /\ calls = 1
    /\ ev.target = k /\ ev.by # ""
    /\ k \in PreviousKeys /\ PreviousData(k).userId # ev.by

(* C30: a DELETE of key K by an authenticated subject that does not own K
   leaves the record of K as it was: lastUsed, accessToken, tokenExpiry and
   active are those before the request, and the provider has not been asked
   to refresh K. *)
C30_NonOwnerDeleteChangesNothing ==
    \A k \in Keys :
        DeletedByOther(k) =>
            /\ Stored(k)
            /\ keyDataOf(Here, k).lastUsed = PreviousData(k).lastUsed
            /\ keyDataOf(Here, k).accessToken = PreviousData(k).accessToken
            /\ keyDataOf(Here, k).tokenExpiry = PreviousData(k).tokenExpiry
            /\ keyDataOf(Here, k).active = PreviousData(k).active
            /\ \A i \in 1..Len(answered) : answered[i].key # k

====
